---- MODULE Spec2Model ----
(***************************************************************************)
(* A model of the turbo-tasks manager (packages/turbo-tasks/src/manager.rs)*)
(* and of the slot writes of crates/turbo-tasks/src/vc.rs.                 *)
(*                                                                         *)
(* The manager's caches, its scheduling counters, the spawned job of       *)
(* schedule(), wait_done() and schedule_background_job() are translated    *)
(* from manager.rs.  Task (task.rs) and Slot (slot.rs) are not part of the *)
(* sources at hand: the task state machine, the slot's compare-and-update  *)
(* and the dependency tracking are modelled from the specification         *)
(* (sections 3, 4.3, 4.4 and 4.6).                                         *)
(***************************************************************************)
EXTENDS Integers, Sequences, FiniteSets, Bags, TLC

\* ------------------------------------------------------------- bounds
\* External operations of a run: cached calls and slot changes together.
MaxOps == 2
\* External slot changes of a run.
MaxChanges == 2
\* Observers of a run: calls of wait_done() and background jobs together.
MaxObservers == 1
NumKeys == 2
NumSlots == 2
MaxVal == 1

\* Calls the body of a task makes in one execution: cached calls, or calls of
\* Vc::slot and Vc::keyed_slot.
MaxCalls == 2
\* Value types and keys of the slots a task body creates.
NumTypes == 2
NumSlotKeys == 2

Callers == 1 .. MaxOps
\* The keys (func, inputs) whose inputs are all resolved values.
Keys == 1 .. NumKeys
\* All keys of a call: beside Keys, one key with an unresolved input and one
\* with a Nothing input.
CallKeys == 1 .. (NumKeys + 2)
Slots == 1 .. NumSlots
Values == 0 .. MaxVal
Waiters == 1 .. MaxObservers
SlotTypes == 1 .. NumTypes
SlotKeys == 1 .. NumSlotKeys

\* The main thread that seeds slots through spawn_once_task.
Writer == MaxOps + 1
Threads == Callers \cup {Writer}

\* Every cached_call allocates at most one Task, every spawn_once_task one:
\* the Task a caller allocates is named by the caller, the Task of the i-th
\* spawn_once_task by MaxOps + i.
OnceTasks == (MaxOps + 1) .. (MaxOps + MaxChanges)
\* The Task of spawn_root_task, and the Tasks the cached calls of its body
\* allocate: the i-th call allocates RootTask + i.
RootTask == MaxOps + MaxChanges + 1
BodyTasks == (RootTask + 1) .. (RootTask + MaxCalls)
Tasks == Callers \cup OnceTasks \cup {RootTask} \cup BodyTasks

\* Option::None of an Arc<Task>.
NoTask == 0
\* A slot that was not read, an output that holds no value.
NoVal == NumSlots * MaxVal + 1
\* An output that holds the error a body returned.
ErrVal == NoVal + 1
\* The listener id of the background job (waiters use their own number).
BgListener == MaxObservers + 1

VARIABLES
    native_task_cache,          \* CHashMap<(func, inputs), Arc<Task>>
    resolve_task_cache,         \* CHashMap<(func, inputs), Arc<Task>>
    trait_task_cache,           \* CHashMap<(trait, method, inputs), Arc<Task>>
    currently_scheduled_tasks,  \* AtomicUsize
    scheduled_tasks,            \* AtomicUsize
    start,                      \* Mutex<Option<Instant>>: 0 is None, n the n-th instant
    period_calls,               \* history: the calls of schedule() since the counter left 0
    last_update,                \* Mutex<Option<(Duration, usize)>>: <<>> is None
    listeners,                  \* Event: the listeners registered and not yet notified
    woken,                      \* Event: the listeners notified and not yet resumed
    tasks,                      \* the Task objects
    content,                    \* Slot.content
    dependents,                 \* Slot.dependents
    jobs,                       \* the async jobs spawned by schedule(), a bag
    thread,                     \* the callers of cached_call and of spawn_once_task
    opsLeft,                    \* external operations still to come
    waiter,                     \* the callers of wait_done()
    bg,                         \* the job of schedule_background_job
    obsLeft                     \* observers still to come

vars == <<native_task_cache, resolve_task_cache, trait_task_cache,
          currently_scheduled_tasks, scheduled_tasks, start, period_calls,
          last_update, listeners, woken, tasks, content, dependents,
          jobs, thread, opsLeft, waiter, bg, obsLeft>>

caches == <<native_task_cache, resolve_task_cache, trait_task_cache>>
counters == <<currently_scheduled_tasks, scheduled_tasks, start, period_calls>>
event == <<listeners, woken>>
slots == <<content, dependents>>
others == <<opsLeft, waiter, bg, obsLeft>>

\* ------------------------------------------------------- pure helpers

\* The slots the body of the function called with key k reads.
Reads(k) == {s \in Slots : s >= k}

Min(S) == CHOOSE x \in S : \A y \in S : x <= y

RECURSIVE SumOver(_, _)
SumOver(S, f) == IF S = {} THEN 0 ELSE LET x == Min(S) IN f[x] + SumOver(S \ {x}, f)

\* The value the body computes from what it read.
Compute(k, obs) == SumOver(Reads(k), obs)

RECURSIVE Append_all(_, _)
Append_all(seq, S) ==
    IF S = {} THEN seq ELSE LET x == Min(S) IN Append_all(Append(seq, x), S \ {x})

NoObs == [s \in Slots |-> NoVal]

FreeTask == [ty |-> "free", key |-> 0, state |-> "Dirty", invalidated |-> FALSE,
             observed |-> NoObs, output |-> NoVal, wslots |-> {}, wval |-> 0,
             runs |-> 0, scheds |-> 0, invals |-> 0, stale |-> 0, parents |-> {},
             fails |-> 0, life |-> "active",
             created |-> <<>>, by_type |-> [ty \in SlotTypes |-> <<>>],
             by_key |-> [key \in SlotKeys |-> 0], picks |-> <<>>, last |-> <<>>]

\* Option::None of the task-local TURBO_TASKS, and the one manager of a run.
NoManager == 0
ThisManager == 1

\* A spawned job: its task, its position, the task-local TURBO_TASKS (tt) and
\* TASKS_TO_NOTIFY (acc), and the locals of the cached call its body is in.
NewJob == [task |-> NoTask, pc |-> "start", todo |-> {}, val |-> 0, acc |-> <<>>,
           taken |-> <<>>, total |-> 0, tt |-> NoManager, calls |-> 0,
           fn |-> "none", map |-> "none", key |-> 0, new_task |-> NoTask,
           res |-> NoTask, handles |-> {}, seen |-> [ty \in SlotTypes |-> 0],
           due |-> <<>>]

IdleThread == [pc |-> "idle", key |-> 0, new_task |-> NoTask, task |-> NoTask]

IdleWaiter == [pc |-> "idle", settled |-> FALSE, got |-> <<>>]

\* The jobs as a set; a job replaced by its next step; a job that ended.
JobSet == BagToSet(jobs)
Step(job, next) == (jobs (-) SetToBag({job})) (+) SetToBag({next})
Ended(job) == jobs (-) SetToBag({job})

\* ------------------------------------------------------------ Task::new_*

\* Task::new_native(inputs, func): a task in its initial state.
NewNative(k) == [FreeTask EXCEPT !.ty = "native", !.key = k]

\* Task::new_once(future): spawn_once_task schedules it at once, so it is
\* created on the scheduler.
NewOnce(S, v) == [FreeTask EXCEPT !.ty = "once", !.state = "Scheduled",
                                  !.wslots = S, !.wval = v]

\* --------------------------------------------------------- schedule()

\* Builder::new().spawn(async move { .. })
Spawn(js, t) == js (+) SetToBag({[NewJob EXCEPT !.task = t]})

StartsTimer_Never(prev) == FALSE

\* The timer is started by the schedule() that finds the counter at 0.
StartsTimer(prev) == prev = 0

ScheduleNow_NoSpawn(t, js, ts) ==
    /\ currently_scheduled_tasks' = currently_scheduled_tasks + 1
    /\ start' = start
    /\ scheduled_tasks' = scheduled_tasks + 1
    /\ period_calls' = period_calls + 1
    /\ jobs' = js
    /\ tasks' = ts

\* schedule(task) called by a running job: the job still holds its own count,
\* so the three atomic operations are taken as one step.
ScheduleNow(t, js, ts) ==
    /\ currently_scheduled_tasks' = currently_scheduled_tasks + 1
    /\ start' = IF StartsTimer(currently_scheduled_tasks) THEN start + 1 ELSE start
    /\ scheduled_tasks' = scheduled_tasks + 1
    /\ period_calls' = period_calls + 1
    /\ jobs' = Spawn(js, t)
    /\ tasks' = ts

NoSchedule(js, ts) ==
    /\ jobs' = js
    /\ tasks' = ts
    /\ UNCHANGED counters

\* schedule(task) called by a thread outside every job, one atomic operation
\* at a time.  fetch_add(1) == 0 decides whether the timer is started.
SchedInc(th) ==
    /\ thread[th].pc = "sched_inc"
    /\ currently_scheduled_tasks' = currently_scheduled_tasks + 1
    /\ period_calls' = period_calls + 1
    /\ thread' = [thread EXCEPT ![th].pc =
            IF StartsTimer(currently_scheduled_tasks) THEN "sched_start" ELSE "sched_count"]
    /\ UNCHANGED <<caches, scheduled_tasks, start, last_update, event,
                   tasks, slots, jobs, others>>

\* *self.start.lock().unwrap() = Some(Instant::now())
SchedStart(th) ==
    /\ thread[th].pc = "sched_start"
    /\ start' = start + 1
    /\ thread' = [thread EXCEPT ![th].pc = "sched_count"]
    /\ UNCHANGED <<caches, currently_scheduled_tasks, scheduled_tasks,
                   period_calls, last_update, event, tasks, slots, jobs, others>>

\* self.scheduled_tasks.fetch_add(1), then the job is spawned and schedule()
\* returns: a caller keeps its handle, the writer is free for the next change.
SchedCount(th) ==
    /\ thread[th].pc = "sched_count"
    /\ scheduled_tasks' = scheduled_tasks + 1
    /\ jobs' = Spawn(jobs, thread[th].task)
    /\ tasks' = [tasks EXCEPT ![thread[th].task].scheds = @ + 1]
    /\ thread' = [thread EXCEPT ![th] =
            IF th = Writer THEN IdleThread ELSE [@ EXCEPT !.pc = "returned"]]
    /\ UNCHANGED <<caches, currently_scheduled_tasks, start, period_calls,
                   last_update, event, slots, others>>

\* ---------------------------------------------------- spawn_once_task

NextOnce_Reuses == Min(OnceTasks)

\* The Task of the next spawn_once_task: Arc::new(Task::new_once(future)).
NextOnce == Min({t \in OnceTasks : tasks[t].ty = "free"})

\* An external slot change: spawn_once_task(future), where the future stores
\* the value v in the slots S.
SpawnOnce(S, v) ==
    /\ thread[Writer].pc = "idle"
    /\ opsLeft > 0
    /\ \E t \in OnceTasks : tasks[t].ty = "free"
    /\ tasks' = [tasks EXCEPT ![NextOnce] = NewOnce(S, v)]
    /\ thread' = [thread EXCEPT ![Writer] =
            [IdleThread EXCEPT !.pc = "sched_inc", !.task = NextOnce]]
    /\ opsLeft' = opsLeft - 1
    /\ UNCHANGED <<caches, counters, last_update, event, slots, jobs,
                   waiter, bg, obsLeft>>

\* ------------------------------------------------------- cached_call

\* map.get(&key): the optimistic read, under the table's read lock only.
CacheGet(map, k) == map[k]

AlterStored_Overwrite(old, new_task) == new_task

\* map.alter(key, |old| ..): what the closure leaves in the map.
AlterStored(old, new_task) == IF old # NoTask THEN old ELSE new_task

AlterResult_KeepsNew(old, new_task) == new_task

\* map.alter(key, |old| ..): the task the closure hands out as result_task.
AlterResult(old, new_task) == IF old # NoTask THEN old ELSE new_task

\* Dirty -> Scheduled, checked and flipped under the task's lock: the task is
\* enqueued by whoever finds it Dirty.
NeedsEnqueue(t) == tasks[t].state = "Dirty"

\* if let Some(cached) = map.get(&key) { .. } else { .. }
CallGet(c, k) ==
    /\ thread[c].pc = "idle"
    /\ \A b \in Callers : b < c => thread[b].pc # "idle"
    /\ opsLeft > 0
    /\ opsLeft' = opsLeft - 1
    /\ thread' = [thread EXCEPT ![c] =
            IF CacheGet(native_task_cache, k) # NoTask
            THEN [IdleThread EXCEPT !.pc = "connect", !.key = k,
                                    !.task = CacheGet(native_task_cache, k)]
            ELSE [IdleThread EXCEPT !.pc = "create", !.key = k]]
    /\ UNCHANGED <<caches, counters, last_update, event, tasks, slots,
                   jobs, waiter, bg, obsLeft>>

\* let new_task = Arc::new(create_new()), before the key is locked.
CallCreate(c) ==
    /\ thread[c].pc = "create"
    /\ tasks' = [tasks EXCEPT ![c] = NewNative(thread[c].key)]
    /\ thread' = [thread EXCEPT ![c].pc = "alter", ![c].new_task = c]
    /\ UNCHANGED <<caches, counters, last_update, event, slots, jobs,
                   others>>

\* map.alter(key, ..) under the key's lock; a new_task that is not stored is
\* dropped with the closure.
CallAlter(c) ==
    LET k == thread[c].key
        old == native_task_cache[k]
        new_task == thread[c].new_task
        stored == AlterStored(old, new_task)
        result_task == AlterResult(old, new_task)
    IN  /\ thread[c].pc = "alter"
        /\ native_task_cache' = [native_task_cache EXCEPT ![k] = stored]
        /\ tasks' = IF stored # new_task /\ result_task # new_task
                    THEN [tasks EXCEPT ![new_task].ty = "dropped"]
                    ELSE tasks
        /\ thread' = [thread EXCEPT ![c].pc = "connect", ![c].task = result_task,
                                    ![c].new_task = NoTask]
        /\ UNCHANGED <<resolve_task_cache, trait_task_cache, counters, last_update,
                       event, slots, jobs, others>>

\* Task::with_current(|parent| task.connect_parent(parent)) and
\* SlotRef::TaskOutput(task): the task is connected and, when it is found
\* Dirty, enqueued by the manager.
CallConnect(c) ==
    LET t == thread[c].task
    IN  /\ thread[c].pc = "connect"
        /\ IF NeedsEnqueue(t)
           THEN /\ tasks' = [tasks EXCEPT ![t].state = "Scheduled"]
                /\ thread' = [thread EXCEPT ![c].pc = "sched_inc"]
           ELSE /\ tasks' = tasks
                /\ thread' = [thread EXCEPT ![c].pc = "returned"]
        /\ UNCHANGED <<caches, counters, last_update, event, slots, jobs,
                       others>>

\* ------------------------------------------------- the job of schedule()

ExecutionStarted_NoGate(t) == TRUE

\* Task::execution_started: Scheduled -> InProgress, checked and flipped
\* atomically; any other state makes the job drop.
ExecutionStarted(t) == tasks[t].state = "Scheduled"

\* After execution_completed a job only touches the manager's counters.
TailJob(job, pc) == [NewJob EXCEPT !.pc = pc, !.total = job.total, !.due = job.due]

AfterDrop_SkipsDec == "end"

\* The fetch_sub on currently_scheduled_tasks stands after the block of
\* `if task.execution_started(&self)`: a job that drops goes on to it.
AfterDrop == "dec"

InstallManager_Never == NoManager

\* TURBO_TASKS.with(|c| (*c.borrow_mut()) = Some(tt)), before task.execute().
InstallManager == ThisManager

\* if task.execution_started(&self) { Task::set_current(..); TURBO_TASKS = .. }
\* On the flip the dependencies of the last execution are cleared; the future
\* of a once task is taken.
JobStart(job) ==
    LET t == job.task
    IN  /\ job.pc = "start"
        /\ IF ExecutionStarted(t)
           THEN /\ tasks' = [tasks EXCEPT ![t].state = "InProgress",
                                          ![t].invalidated = FALSE,
                                          ![t].observed = NoObs,
                                          ![t].wslots = {},
                                          ![t].wval = 0,
                                          ![t].runs = @ + 1,
                                          ![t].last = tasks[t].picks,
                                          ![t].picks = <<>>]
                /\ dependents' = [s \in Slots |-> dependents[s] \ {t}]
                /\ jobs' = Step(job, [job EXCEPT !.pc = "body",
                                        !.todo = IF tasks[t].ty = "native"
                                                 THEN Reads(tasks[t].key)
                                                 ELSE tasks[t].wslots,
                                        !.val = tasks[t].wval,
                                        !.tt = InstallManager])
           ELSE /\ jobs' = Step(job, TailJob(job, AfterDrop))
                /\ UNCHANGED <<tasks, dependents>>
        /\ UNCHANGED <<caches, counters, last_update, event, content,
                       thread, others>>

\* Vc::get inside task.execute(): the read registers the task as a dependent
\* of the slot and returns the slot's content.
BodyRead(job) ==
    LET t == job.task
        s == Min(job.todo)
    IN  /\ job.pc = "body"
        /\ tasks[t].ty = "native"
        /\ job.todo # {}
        /\ dependents' = [dependents EXCEPT ![s] = @ \cup {t}]
        /\ tasks' = [tasks EXCEPT ![t].observed[s] = content[s]]
        /\ jobs' = Step(job, [job EXCEPT !.todo = @ \ {s}])
        /\ UNCHANGED <<caches, counters, last_update, event, content,
                       thread, others>>

ScheduleNotifyTasks_Forgets(acc, tasks_iter) == acc

\* TurboTasks::schedule_notify_tasks(tasks_iter): the tasks are pushed onto
\* the job's TASKS_TO_NOTIFY.
ScheduleNotifyTasks(acc, tasks_iter) == Append_all(acc, tasks_iter)

\* Slot::compare_and_update_shared: an equal value changes nothing.
SlotChanges(s, v) == content[s] # v

\* Vc::slot(content) inside task.execute(): compare-and-update of the slot;
\* on a change the slot's dependents are handed to schedule_notify_tasks.
BodyWrite(job) ==
    LET t == job.task
        s == Min(job.todo)
        v == job.val
    IN  /\ job.pc = "body"
        /\ tasks[t].ty = "once"
        /\ job.todo # {}
        /\ IF SlotChanges(s, v)
           THEN /\ content' = [content EXCEPT ![s] = v]
                /\ jobs' = Step(job, [job EXCEPT !.todo = @ \ {s},
                                        !.acc = ScheduleNotifyTasks(@, dependents[s])])
           ELSE /\ content' = content
                /\ jobs' = Step(job, [job EXCEPT !.todo = @ \ {s}])
        /\ UNCHANGED <<caches, counters, last_update, event, tasks,
                       dependents, thread, others>>

\* let result = task.execute(self.clone()).await; task.execution_result(result):
\* the body's future resolves and the result is recorded as the task's output.
JobResult(job) ==
    LET t == job.task
    IN  /\ job.pc = "body"
        /\ job.todo = {}
        /\ tasks' = [tasks EXCEPT ![t].output =
                IF tasks[t].ty = "native"
                THEN Compute(tasks[t].key, tasks[t].observed)
                ELSE job.val]
        /\ jobs' = Step(job, [job EXCEPT !.pc = "take"])
        /\ UNCHANGED <<caches, counters, last_update, event, slots,
                       thread, others>>

JobTake_Twice(job) ==
    /\ job.pc = "take"
    /\ jobs' = Step(job, [job EXCEPT !.pc = "flush", !.taken = job.acc \o job.acc,
                                     !.acc = <<>>])
    /\ UNCHANGED <<caches, counters, last_update, event, tasks, slots,
                   thread, others>>

\* TASKS_TO_NOTIFY.with(|tasks| tasks.take()): the accumulator is emptied and
\* its former content is iterated.
JobTake(job) ==
    /\ job.pc = "take"
    /\ jobs' = Step(job, [job EXCEPT !.pc = "flush", !.taken = job.acc, !.acc = <<>>])
    /\ UNCHANGED <<caches, counters, last_update, event, tasks, slots,
                   thread, others>>

\* Task::dependent_slot_updated: a Done task becomes Dirty and is scheduled
\* again; an InProgress task is marked as invalidated mid-flight; a Dirty or
\* Scheduled task is left alone.
Reschedules(d) == tasks[d].state = "Done"

\* for task in tasks.take().iter() { task.dependent_slot_updated(self.clone()) }
JobNotify(job) ==
    LET d == Head(job.taken)
        js == Step(job, [job EXCEPT !.taken = Tail(@)])
    IN  /\ job.pc = "flush"
        /\ job.taken # <<>>
        /\ IF Reschedules(d)
           THEN ScheduleNow(d, js, [tasks EXCEPT ![d].state = "Scheduled",
                                                 ![d].output = NoVal,
                                                 ![d].invals = @ + 1])
           ELSE NoSchedule(js, IF tasks[d].state = "InProgress" /\ ~tasks[d].invalidated
                               THEN [tasks EXCEPT ![d].invalidated = TRUE,
                                                  ![d].stale = @ + 1]
                               ELSE tasks)
        /\ UNCHANGED <<caches, last_update, event, slots, thread, others>>

FlushEnded_Early(job) == TRUE

\* The loop over the taken notifications has ended when execution_completed
\* is called.
FlushEnded(job) == job.taken = <<>>

\* task.execution_completed(self.clone()): Done when no invalidation arrived
\* mid-flight; otherwise the result is discarded and the task is scheduled
\* again.
JobCompleted(job) ==
    LET t == job.task
        js == Step(job, TailJob(job, "dec"))
    IN  /\ job.pc = "flush"
        /\ FlushEnded(job)
        /\ IF tasks[t].invalidated
           THEN ScheduleNow(t, js, [tasks EXCEPT ![t].state = "Scheduled",
                                                 ![t].invalidated = FALSE,
                                                 ![t].output = NoVal])
           ELSE NoSchedule(js, [tasks EXCEPT ![t].state = "Done"])
        /\ UNCHANGED <<caches, last_update, event, slots, thread, others>>

IsLast_AnyEnd(prev) == prev >= 1

\* fetch_sub(1) == 1: this job moved the counter to 0.
IsLast(prev) == prev = 1

\* self.currently_scheduled_tasks.fetch_sub(1, AcqRel).  The job that moves the
\* counter to 0 ends a busy period: `due` keeps the instant the period was
\* opened at and the number of schedule() calls made in it.
JobDec(job) ==
    /\ job.pc = "dec"
    /\ currently_scheduled_tasks' = currently_scheduled_tasks - 1
    /\ jobs' = IF IsLast(currently_scheduled_tasks)
               THEN Step(job, [TailJob(job, "load") EXCEPT !.due = <<start, period_calls>>])
               ELSE Ended(job)
    /\ period_calls' = IF IsLast(currently_scheduled_tasks) THEN 0 ELSE period_calls
    /\ UNCHANGED <<caches, scheduled_tasks, start, last_update, event,
                   tasks, slots, thread, others>>

\* let total = self.scheduled_tasks.load(Acquire)
JobLoad(job) ==
    /\ job.pc = "load"
    /\ jobs' = Step(job, [job EXCEPT !.pc = "store", !.total = scheduled_tasks])
    /\ UNCHANGED <<caches, counters, last_update, event, tasks, slots,
                   thread, others>>

\* self.scheduled_tasks.store(0, Release)
JobStore(job) ==
    /\ job.pc = "store"
    /\ scheduled_tasks' = 0
    /\ jobs' = Step(job, [job EXCEPT !.pc = "publish"])
    /\ UNCHANGED <<caches, currently_scheduled_tasks, start, period_calls,
                   last_update, event, tasks, slots, thread, others>>

\* if let Some(start) = *self.start.lock().unwrap() {
\*     *self.last_update.lock().unwrap() = Some((start.elapsed(), total)) }
\* The elapsed time is given by the instant it is measured from.
JobPublish(job) ==
    /\ job.pc = "publish"
    /\ last_update' = IF start # 0 THEN <<start, job.total>> ELSE last_update
    /\ jobs' = Step(job, TailJob(NewJob, "event"))
    /\ UNCHANGED <<caches, counters, event, tasks, slots, thread, others>>

\* self.event.notify(usize::MAX): every registered listener is notified; the
\* job ends.
JobEvent(job) ==
    /\ job.pc = "event"
    /\ woken' = woken \cup listeners
    /\ listeners' = {}
    /\ jobs' = Ended(job)
    /\ UNCHANGED <<caches, counters, last_update, tasks, slots, thread,
                   others>>

\* ------------------------------------------------------------ wait_done

\* All external slot changes have been issued.
WritesSettled == opsLeft = 0 /\ thread[Writer].pc = "idle"

\* self.event.listen(): the listener is registered when wait_done() is polled.
WaitListen(w) ==
    /\ waiter[w].pc = "idle"
    /\ \A b \in Waiters : b < w => waiter[b].pc # "idle"
    /\ obsLeft > 0
    /\ obsLeft' = obsLeft - 1
    /\ listeners' = listeners \cup {w}
    /\ waiter' = [waiter EXCEPT ![w].pc = "listening", ![w].settled = WritesSettled]
    /\ UNCHANGED <<caches, counters, last_update, woken, tasks, slots,
                   jobs, thread, opsLeft, bg>>

\* .await returns once the listener was notified; then
\* self.last_update.lock().unwrap().unwrap()
WaitReturn(w) ==
    /\ waiter[w].pc = "listening"
    /\ w \in woken
    /\ woken' = woken \ {w}
    /\ waiter' = [waiter EXCEPT ![w].pc = IF last_update = <<>> THEN "panicked"
                                          ELSE "returned",
                                ![w].got = last_update]
    /\ UNCHANGED <<caches, counters, last_update, listeners, tasks, slots,
                   jobs, thread, opsLeft, bg, obsLeft>>

\* ---------------------------------------------- schedule_background_job

\* Builder::new().spawn(async move { .. }) of schedule_background_job.
BgSpawn ==
    /\ bg = "none"
    /\ obsLeft > 0
    /\ bg' = "check1"
    /\ obsLeft' = obsLeft - 1
    /\ UNCHANGED <<caches, counters, last_update, event, tasks, slots,
                   jobs, thread, opsLeft, waiter>>

\* self.currently_scheduled_tasks.load(Acquire) != 0
StillScheduled == currently_scheduled_tasks # 0

AfterListen_NoRecheck == "await"

\* The step after the listener is registered: the counter is read again.
AfterListen == "check2"

\* if self.currently_scheduled_tasks.load(Acquire) != 0 {
BgCheck1 ==
    /\ bg = "check1"
    /\ bg' = IF StillScheduled THEN "listen" ELSE "run"
    /\ UNCHANGED <<caches, counters, last_update, event, tasks, slots,
                   jobs, thread, opsLeft, waiter, obsLeft>>

\* let listener = self.event.listen();
BgListen ==
    /\ bg = "listen"
    /\ listeners' = listeners \cup {BgListener}
    /\ bg' = AfterListen
    /\ UNCHANGED <<caches, counters, last_update, woken, tasks, slots,
                   jobs, thread, opsLeft, waiter, obsLeft>>

\* if self.currently_scheduled_tasks.load(Acquire) != 0 { listener.await }
\* A listener that is not awaited is dropped.
BgCheck2 ==
    /\ bg = "check2"
    /\ IF StillScheduled
       THEN /\ bg' = "await"
            /\ UNCHANGED <<listeners, woken>>
       ELSE /\ bg' = "run"
            /\ listeners' = listeners \ {BgListener}
            /\ woken' = woken \ {BgListener}
    /\ UNCHANGED <<caches, counters, last_update, tasks, slots, jobs,
                   thread, opsLeft, waiter, obsLeft>>

\* listener.await
BgAwait ==
    /\ bg = "await"
    /\ BgListener \in woken
    /\ woken' = woken \ {BgListener}
    /\ bg' = "run"
    /\ UNCHANGED <<caches, counters, last_update, listeners, tasks, slots,
                   jobs, thread, opsLeft, waiter, obsLeft>>

\* job.await
BgRun ==
    /\ bg = "run"
    /\ bg' = "none"
    /\ UNCHANGED <<caches, counters, last_update, event, tasks, slots,
                   jobs, thread, opsLeft, waiter, obsLeft>>

\* ------------------------------------------------------ specification

\* The state after TurboTasks::new(): empty caches, counters at 0, no timer,
\* no update, no listener.  The run has the caller threads of `present`,
\* `ops` external operations and `obs` observers to come.
InitWith(present, ops, obs) ==
    /\ native_task_cache = [k \in CallKeys |-> NoTask]
    /\ resolve_task_cache = [k \in CallKeys |-> NoTask]
    /\ trait_task_cache = [k \in CallKeys |-> NoTask]
    /\ currently_scheduled_tasks = 0
    /\ scheduled_tasks = 0
    /\ start = 0
    /\ period_calls = 0
    /\ last_update = <<>>
    /\ listeners = {}
    /\ woken = {}
    /\ tasks = [t \in Tasks |-> FreeTask]
    /\ content = [s \in Slots |-> 0]
    /\ dependents = [s \in Slots |-> {}]
    /\ jobs = EmptyBag
    /\ thread = [th \in Threads |-> IF th \in present \cup {Writer} THEN IdleThread
                                    ELSE [IdleThread EXCEPT !.pc = "absent"]]
    /\ opsLeft = ops
    /\ waiter = [w \in Waiters |-> IdleWaiter]
    /\ bg = "none"
    /\ obsLeft = obs

Init == InitWith(Callers, MaxOps, MaxObservers)

\* The steps of the threads outside the jobs; a slot change stores into one
\* of the slot sets of Sets.
ThreadSteps(Sets) ==
    \/ \E th \in Threads : SchedInc(th)
    \/ \E th \in Threads : SchedStart(th)
    \/ \E th \in Threads : SchedCount(th)
    \/ \E S \in Sets, v \in Values : SpawnOnce(S, v)
    \/ \E c \in Callers, k \in Keys : CallGet(c, k)
    \/ \E c \in Callers : CallCreate(c)
    \/ \E c \in Callers : CallAlter(c)
    \/ \E c \in Callers : CallConnect(c)

\* The steps of the jobs spawned by schedule().
JobSteps ==
    \/ \E job \in JobSet : JobStart(job)
    \/ \E job \in JobSet : BodyRead(job)
    \/ \E job \in JobSet : BodyWrite(job)
    \/ \E job \in JobSet : JobResult(job)
    \/ \E job \in JobSet : JobTake(job)
    \/ \E job \in JobSet : JobNotify(job)
    \/ \E job \in JobSet : JobCompleted(job)
    \/ \E job \in JobSet : JobDec(job)
    \/ \E job \in JobSet : JobLoad(job)
    \/ \E job \in JobSet : JobStore(job)
    \/ \E job \in JobSet : JobPublish(job)
    \/ \E job \in JobSet : JobEvent(job)

\* The steps of wait_done() and of the background job.
ObserverSteps ==
    \/ \E w \in Waiters : WaitListen(w)
    \/ \E w \in Waiters : WaitReturn(w)
    \/ BgSpawn
    \/ BgCheck1
    \/ BgListen
    \/ BgCheck2
    \/ BgAwait
    \/ BgRun

Next == ThreadSteps(SUBSET Slots \ {{}}) \/ JobSteps \/ ObserverSteps

Spec == Init /\ [][Next]_vars

\* What the runtime keeps running: the spawned jobs, the threads that are in
\* the middle of an operation, and the observers once they were started.  The
\* start of an external operation or of an observer is left to the
\* environment.
Progress ==
    \/ JobSteps
    \/ \E th \in Threads : SchedInc(th) \/ SchedStart(th) \/ SchedCount(th)
    \/ \E c \in Callers : CallCreate(c) \/ CallAlter(c) \/ CallConnect(c)
    \/ \E w \in Waiters : WaitReturn(w)
    \/ BgCheck1 \/ BgListen \/ BgCheck2 \/ BgAwait \/ BgRun

\* A run of one caller thread beside the writer.
InitFair == InitWith({1}, MaxOps, MaxObservers)

\* The tokio runtime polls every spawned job and every thread runs on.
SpecFair == InitFair /\ [][Next]_vars /\ WF_vars(Progress)

\* A run of one caller and MaxChanges changes of one slot each, without
\* observers.
InitChanges == InitWith({1}, 1 + MaxChanges, 0)

NextChanges == ThreadSteps({{s} : s \in Slots}) \/ JobSteps

SpecChanges == InitChanges /\ [][NextChanges]_vars

\* ------------------------------------------------- the inputs of a call

\* The TaskInputs of a key: a value, a value and an unresolved task output,
\* or Nothing.
Inputs(k) ==
    IF k <= NumKeys THEN <<"value">>
    ELSE IF k = NumKeys + 1 THEN <<"value", "unresolved">>
    ELSE <<"nothing">>

\* TaskInput::is_resolved: true iff no unresolved handle appears.
is_resolved(i) == i # "unresolved"

\* TaskInput::is_nothing
is_nothing(i) == i = "nothing"

\* inputs.iter().all(|i| i.is_resolved() && !i.is_nothing())
AllResolved(k) ==
    \A n \in DOMAIN Inputs(k) : is_resolved(Inputs(k)[n]) /\ ~is_nothing(Inputs(k)[n])

\* ------------------------------------------------------------ Task::new_*

\* Task::new_resolve_native(inputs, func)
NewResolveNative(k) == [FreeTask EXCEPT !.ty = "resolve", !.key = k]

\* Task::new_resolve_trait(trait_type, trait_fn_name, inputs)
NewResolveTrait(k) == [FreeTask EXCEPT !.ty = "trait", !.key = k]

\* Task::new_root(functor): spawn_root_task schedules it at once, so it is
\* created on the scheduler.
NewRoot == [FreeTask EXCEPT !.ty = "root", !.state = "Scheduled"]

\* ---------------------------------------------------- spawn_root_task

\* spawn_root_task(functor): a new Task that is handed to schedule().
SpawnRoot ==
    /\ thread[Writer].pc = "idle"
    /\ opsLeft > 0
    /\ tasks[RootTask].ty = "free"
    /\ tasks' = [tasks EXCEPT ![RootTask] = NewRoot]
    /\ thread' = [thread EXCEPT ![Writer] =
            [IdleThread EXCEPT !.pc = "sched_inc", !.task = RootTask]]
    /\ opsLeft' = opsLeft - 1
    /\ UNCHANGED <<caches, counters, last_update, event, slots, jobs, waiter, bg,
                   obsLeft>>

\* ------------------------------------- dynamic_call, trait_call, native_call

DynamicCallMap_AlwaysNative(k) == "native"

DynamicCallMap_Swapped(k) == IF AllResolved(k) THEN "resolve" ELSE "native"

\* TurboTasks::dynamic_call: the cache its cached_call is given.
DynamicCallMap(k) == IF AllResolved(k) THEN "native" ELSE "resolve"

\* TurboTasks::trait_call: the cache its cached_call is given.
TraitCallMap(k) == "trait"

SelectMap(fn, k) == IF fn = "dynamic_call" THEN DynamicCallMap(k) ELSE TraitCallMap(k)

Maps == {"native", "resolve", "trait"}

\* The map: &CHashMap<K, Arc<Task>> of a cached_call.
Cache(m) ==
    CASE m = "native" -> native_task_cache
      [] m = "resolve" -> resolve_task_cache
      [] m = "trait" -> trait_task_cache

\* The create_new closure the entry point passes to cached_call.
CreateNew(m, k) ==
    CASE m = "native" -> NewNative(k)
      [] m = "resolve" -> NewResolveNative(k)
      [] m = "trait" -> NewResolveTrait(k)

\* TurboTasks::current(): the task-local TURBO_TASKS of the job.
Current(job) == job.tt

\* The free functions dynamic_call and trait_call called on a thread that
\* runs no job: TurboTasks::current() is None and the unwrap() panics.
FreeCallOutside(c) ==
    /\ thread[c].pc = "idle"
    /\ \A b \in Callers : b < c => thread[b].pc # "idle"
    /\ opsLeft > 0
    /\ opsLeft' = opsLeft - 1
    /\ thread' = [thread EXCEPT ![c].pc = "panicked"]
    /\ UNCHANGED <<caches, counters, last_update, event, tasks, slots, jobs, waiter,
                   bg, obsLeft>>

\* The free function dynamic_call or trait_call called by the body of a root
\* task: TurboTasks::current().unwrap(), then the entry point selects the
\* cache and cached_call reads it optimistically.
BodyCall(job, fn, k) ==
    LET m == SelectMap(fn, k)
        cached == CacheGet(Cache(m), k)
    IN  /\ job.pc = "body"
        /\ tasks[job.task].ty = "root"
        /\ job.calls < MaxCalls
        /\ jobs' = Step(job,
                IF Current(job) = NoManager
                THEN [job EXCEPT !.pc = "aborted", !.fn = fn, !.key = k]
                ELSE IF cached # NoTask
                THEN [job EXCEPT !.pc = "b_connect", !.fn = fn, !.map = m, !.key = k,
                                 !.res = cached, !.calls = @ + 1]
                ELSE [job EXCEPT !.pc = "b_create", !.fn = fn, !.map = m, !.key = k,
                                 !.calls = @ + 1])
        /\ UNCHANGED <<caches, counters, last_update, event, tasks, slots, thread,
                       others>>

\* let new_task = Arc::new(create_new()), before the key is locked.
BodyCreate(job) ==
    LET id == RootTask + job.calls
    IN  /\ job.pc = "b_create"
        /\ tasks' = [tasks EXCEPT ![id] = CreateNew(job.map, job.key)]
        /\ jobs' = Step(job, [job EXCEPT !.pc = "b_alter", !.new_task = id])
        /\ UNCHANGED <<caches, counters, last_update, event, slots, thread, others>>

\* map.alter(key, ..) on the cache the entry point selected.
BodyAlter(job) ==
    LET m == job.map
        k == job.key
        old == Cache(m)[k]
        stored == AlterStored(old, job.new_task)
        result_task == AlterResult(old, job.new_task)
    IN  /\ job.pc = "b_alter"
        /\ native_task_cache' = IF m = "native"
                                THEN [native_task_cache EXCEPT ![k] = stored]
                                ELSE native_task_cache
        /\ resolve_task_cache' = IF m = "resolve"
                                 THEN [resolve_task_cache EXCEPT ![k] = stored]
                                 ELSE resolve_task_cache
        /\ trait_task_cache' = IF m = "trait"
                               THEN [trait_task_cache EXCEPT ![k] = stored]
                               ELSE trait_task_cache
        /\ tasks' = IF stored # job.new_task /\ result_task # job.new_task
                    THEN [tasks EXCEPT ![job.new_task].ty = "dropped"]
                    ELSE tasks
        /\ jobs' = Step(job, [job EXCEPT !.pc = "b_connect", !.res = result_task,
                                         !.new_task = NoTask])
        /\ UNCHANGED <<counters, last_update, event, slots, thread, others>>

ConnectParent_Skips(parents, parent) == parents

\* task.connect_parent(parent): the parent joins the set of parents.
ConnectParent(parents, parent) == parents \cup {parent}

\* Task::with_current(|parent| task.connect_parent(parent)) in a job whose
\* current task was set by Task::set_current, and SlotRef::TaskOutput(task):
\* the task is connected and, when it is found Dirty, enqueued.
BodyConnect(job) ==
    LET t == job.res
        ts == [tasks EXCEPT ![t].parents = ConnectParent(@, job.task)]
        js == Step(job, [job EXCEPT !.pc = "body", !.fn = "none", !.map = "none",
                                    !.key = 0, !.res = NoTask,
                                    !.handles = @ \cup {t}])
    IN  /\ job.pc = "b_connect"
        /\ IF NeedsEnqueue(t)
           THEN ScheduleNow(t, js, [ts EXCEPT ![t].state = "Scheduled",
                                              ![t].scheds = @ + 1])
           ELSE NoSchedule(js, ts)
        /\ UNCHANGED <<caches, last_update, event, slots, thread, others>>

\* A run of a root task beside one caller thread.
InitGraph == InitWith({1}, MaxOps, 0)

NextGraph ==
    \/ \E th \in Threads : SchedInc(th)
    \/ \E th \in Threads : SchedStart(th)
    \/ \E th \in Threads : SchedCount(th)
    \/ SpawnRoot
    \/ \E c \in Callers, k \in Keys : CallGet(c, k)
    \/ \E c \in Callers : CallCreate(c)
    \/ \E c \in Callers : CallAlter(c)
    \/ \E c \in Callers : CallConnect(c)
    \/ \E c \in Callers : FreeCallOutside(c)
    \/ \E job \in JobSet : JobStart(job)
    \/ \E job \in JobSet, fn \in {"dynamic_call", "trait_call"}, k \in CallKeys :
            BodyCall(job, fn, k)
    \/ \E job \in JobSet : BodyCreate(job)
    \/ \E job \in JobSet : BodyAlter(job)
    \/ \E job \in JobSet : BodyConnect(job)
    \/ \E job \in JobSet : BodyRead(job)
    \/ \E job \in JobSet : JobResult(job)
    \/ \E job \in JobSet : JobTake(job)
    \/ \E job \in JobSet : JobCompleted(job)
    \/ \E job \in JobSet : JobDec(job)
    \/ \E job \in JobSet : JobLoad(job)
    \/ \E job \in JobSet : JobStore(job)
    \/ \E job \in JobSet : JobPublish(job)
    \/ \E job \in JobSet : JobEvent(job)

SpecGraph == InitGraph /\ [][NextGraph]_vars

\* ------------------------------------------------- a body that fails

AfterError_SkipsFlush == "dec"

\* if let Err(err) = &result { println!(..) }: the job goes on as after Ok.
AfterError == "take"

\* task.execute(self.clone()).await returns Err at some point of the body;
\* task.execution_result(result) records the error as the task's output.
JobFail(job) ==
    LET t == job.task
    IN  /\ job.pc = "body"
        /\ tasks' = [tasks EXCEPT ![t].output = ErrVal, ![t].fails = @ + 1]
        /\ jobs' = Step(job, [job EXCEPT !.pc = AfterError, !.todo = {}])
        /\ UNCHANGED <<caches, counters, last_update, event, slots, thread, others>>

\* A run of one caller and of changes of one slot each, where bodies may
\* fail.
InitFail == InitWith({1}, MaxOps, 0)

NextFail ==
    \/ ThreadSteps({{s} : s \in Slots})
    \/ JobSteps
    \/ \E job \in JobSet : JobFail(job)

SpecFail == InitFail /\ [][NextFail]_vars

\* ------------------------------------------- root, once and cached tasks

\* A run of the main thread, which spawns root and once tasks, beside one
\* caller thread.
InitSpawn == InitWith({1}, MaxOps, 0)

NextSpawn ==
    \/ ThreadSteps({{s} : s \in Slots})
    \/ SpawnRoot
    \/ JobSteps

SpecSpawn == InitSpawn /\ [][NextSpawn]_vars

\* TurboTasks::cached_tasks_iter: the tasks of the three caches.
CachedTasksIter ==
    {Cache(m)[k] : m \in Maps, k \in CallKeys} \ {NoTask}

\* --------------------------------------------- deactivation and removal

\* The tasks handed to the background job that is spawned or running.
Handed(stage) == {t \in Tasks : tasks[t].life = stage}

\* A caller drops the SlotRef of its call; the task, which no parent and no
\* handle keeps live any more, is handed to schedule_deactivate_tasks, which
\* spawns a background job.
DropHandle(c) ==
    LET t == thread[c].task
    IN  /\ thread[c].pc = "returned"
        /\ tasks[t].parents = {}
        /\ tasks[t].life = "active"
        /\ bg = "none"
        /\ obsLeft > 0
        /\ obsLeft' = obsLeft - 1
        /\ thread' = [thread EXCEPT ![c].pc = "released"]
        /\ tasks' = [tasks EXCEPT ![t].life = "deactivate"]
        /\ bg' = "check1"
        /\ UNCHANGED <<caches, counters, last_update, event, slots, jobs, opsLeft,
                       waiter>>

\* job.await of schedule_deactivate_tasks: Task::deactivate_tasks(tasks, tt);
\* the deactivated tasks are handed to schedule_remove_tasks, which spawns the
\* next background job.
BgDeactivate ==
    /\ bg = "run"
    /\ Handed("deactivate") # {}
    /\ tasks' = [t \in Tasks |-> IF t \in Handed("deactivate")
                                 THEN [tasks[t] EXCEPT !.life = "remove"]
                                 ELSE tasks[t]]
    /\ bg' = "check1"
    /\ UNCHANGED <<caches, counters, last_update, event, slots, jobs, thread, opsLeft,
                   waiter, obsLeft>>

\* job.await of schedule_remove_tasks: Task::remove_tasks(tasks, tt).  The
\* caches are private fields of TurboTasks and no method of the manager takes
\* an entry out of them: the job leaves them as they are.
BgRemove ==
    /\ bg = "run"
    /\ Handed("deactivate") = {}
    /\ tasks' = [t \in Tasks |-> IF t \in Handed("remove")
                                 THEN [tasks[t] EXCEPT !.life = "removed"]
                                 ELSE tasks[t]]
    /\ bg' = "none"
    /\ UNCHANGED <<caches, counters, last_update, event, slots, jobs, thread, opsLeft,
                   waiter, obsLeft>>

\* A run of one caller that drops the handle of its call.
InitLive == InitWith({1}, MaxOps, MaxObservers)

NextLive ==
    \/ ThreadSteps({{s} : s \in Slots})
    \/ JobSteps
    \/ \E c \in Callers : DropHandle(c)
    \/ BgCheck1
    \/ BgListen
    \/ BgCheck2
    \/ BgAwait
    \/ BgDeactivate
    \/ BgRemove

SpecLive == InitLive /\ [][NextLive]_vars

\* ------------------------------------------- Vc::slot and Vc::keyed_slot

MatchPreviousNodeByType_AlwaysNew(t, ty, n) == Len(tasks[t].created) + 1

\* match_previous_node_by_type::<T, _>: the n-th call for a value type in an
\* execution gets the n-th slot the task made for that type, a new slot of
\* the task when there is none.  A slot of a task is named by its index.
MatchPreviousNodeByType(t, ty, n) ==
    IF n <= Len(tasks[t].by_type[ty]) THEN tasks[t].by_type[ty][n]
    ELSE Len(tasks[t].created) + 1

\* match_previous_node_by_key::<T, T, _>(key, ..): the slot the task made for
\* the key, a new slot of the task when there is none.
MatchPreviousNodeByKey(t, key) ==
    IF tasks[t].by_key[key] # 0 THEN tasks[t].by_key[key]
    ELSE Len(tasks[t].created) + 1

\* __slot.compare_and_update_shared(&Self::value_type(), content) on the slot
\* of index idx: a new slot takes the content; a slot whose content is equal
\* is left alone; otherwise the content is replaced.
CompareAndUpdate(created, idx, v) ==
    IF idx > Len(created) THEN Append(created, [val |-> v, version |-> 1])
    ELSE IF created[idx].val = v THEN created
    ELSE [created EXCEPT ![idx] = [val |-> v, version |-> @.version + 1]]

\* The content the body places: what it computed from its reads.
Placed(t) == Compute(tasks[t].key, tasks[t].observed)

\* Vc::slot(content) in the body of a native task, after its reads.
BodySlot(job, ty) ==
    LET t == job.task
        n == job.seen[ty] + 1
        idx == MatchPreviousNodeByType(t, ty, n)
    IN  /\ job.pc = "body"
        /\ tasks[t].ty = "native"
        /\ job.todo = {}
        /\ job.calls < MaxCalls
        /\ tasks' = [tasks EXCEPT
                ![t].created = CompareAndUpdate(@, idx, Placed(t)),
                ![t].by_type[ty] = IF n <= Len(@) THEN @ ELSE Append(@, idx),
                ![t].picks = Append(@, [kind |-> "type", of |-> ty, n |-> n,
                                        slot |-> idx])]
        /\ jobs' = Step(job, [job EXCEPT !.calls = @ + 1, !.seen[ty] = n])
        /\ UNCHANGED <<caches, counters, last_update, event, slots, thread, others>>

\* Vc::keyed_slot(key, content) in the body of a native task, after its
\* reads; a key is used once in an execution.
BodyKeyedSlot(job, key) ==
    LET t == job.task
        idx == MatchPreviousNodeByKey(t, key)
    IN  /\ job.pc = "body"
        /\ tasks[t].ty = "native"
        /\ job.todo = {}
        /\ job.calls < MaxCalls
        /\ \A i \in DOMAIN tasks[t].picks :
                ~(tasks[t].picks[i].kind = "key" /\ tasks[t].picks[i].of = key)
        /\ tasks' = [tasks EXCEPT
                ![t].created = CompareAndUpdate(@, idx, Placed(t)),
                ![t].by_key[key] = idx,
                ![t].picks = Append(@, [kind |-> "key", of |-> key, n |-> 0,
                                        slot |-> idx])]
        /\ jobs' = Step(job, [job EXCEPT !.calls = @ + 1])
        /\ UNCHANGED <<caches, counters, last_update, event, slots, thread, others>>

\* A run of one caller, whose task places slots, and of changes of one slot
\* each.
InitSlots == InitWith({1}, MaxOps, 0)

NextSlots ==
    \/ ThreadSteps({{s} : s \in Slots})
    \/ JobSteps
    \/ \E job \in JobSet, ty \in SlotTypes : BodySlot(job, ty)
    \/ \E job \in JobSet, key \in SlotKeys : BodyKeyedSlot(job, key)

SpecSlots == InitSlots /\ [][NextSlots]_vars

\* ------------------------------------------ schedule() called again

\* schedule(task) is pub(crate) and checks nothing before it spawns: a holder
\* of a task calls it once more, whatever the state of the task, and a second
\* job of the same task is spawned.
ScheduleAgain(c) ==
    /\ thread[c].pc = "returned"
    /\ opsLeft > 0
    /\ opsLeft' = opsLeft - 1
    /\ thread' = [thread EXCEPT ![c].pc = "sched_inc"]
    /\ UNCHANGED <<caches, counters, last_update, event, tasks, slots, jobs,
                   waiter, bg, obsLeft>>

\* A run of the callers in which the tasks handed out are scheduled again.
InitGate == InitWith(Callers, 1 + MaxChanges, 0)

NextGate ==
    \/ \E th \in Threads : SchedInc(th)
    \/ \E th \in Threads : SchedStart(th)
    \/ \E th \in Threads : SchedCount(th)
    \/ \E c \in Callers, k \in Keys : CallGet(c, k)
    \/ \E c \in Callers : CallCreate(c)
    \/ \E c \in Callers : CallAlter(c)
    \/ \E c \in Callers : CallConnect(c)
    \/ \E c \in Callers : ScheduleAgain(c)
    \/ \E job \in JobSet : JobStart(job)
    \/ \E job \in JobSet : BodyRead(job)
    \/ \E job \in JobSet : JobResult(job)
    \/ \E job \in JobSet : JobTake(job)
    \/ \E job \in JobSet : JobCompleted(job)
    \/ \E job \in JobSet : JobDec(job)
    \/ \E job \in JobSet : JobLoad(job)
    \/ \E job \in JobSet : JobStore(job)
    \/ \E job \in JobSet : JobPublish(job)
    \/ \E job \in JobSet : JobEvent(job)

SpecGate == InitGate /\ [][NextGate]_vars

\* A run in which tasks are scheduled again and bodies may fail: jobs that
\* execute, jobs that drop at execution_started and jobs whose body returns
\* an error.
InitBalance == InitWith(Callers, 1 + MaxChanges, 0)

NextBalance ==
    \/ NextGate
    \/ \E job \in JobSet : JobFail(job)

SpecBalance == InitBalance /\ [][NextBalance]_vars

\* ------------------------------------------------------------- claims

\* The callers of cached_call that hold the task of their call.
HoldsTask(c) == thread[c].pc \in {"connect", "sched_inc", "sched_start", "sched_count",
                                  "returned"}

\* The Task objects create_new() made for key k.
CreatedFor(k) == {t \in Callers : tasks[t].ty \in {"native", "dropped"} /\ tasks[t].key = k}

\* The tasks handed to the callers of key k.
HandedOut(k) == {thread[c].task : c \in {b \in Callers : HoldsTask(b) /\ thread[b].key = k}}

\* C1 as stated: for k calls with equal keys, in every interleaving of the
\* optimistic read and the alter, exactly one task instance is created for the
\* key, all calls return that task and it is scheduled at most once.
C1_Original ==
    \A k \in Keys :
        /\ Cardinality(CreatedFor(k)) <= 1
        /\ Cardinality(HandedOut(k)) <= 1
        /\ \A t \in CreatedFor(k) : tasks[t].scheds <= 1

\* C1 as amended: every caller that misses the optimistic read constructs a
\* task of its own, but exactly one task is stored for the key, every call
\* returns that stored task, it is scheduled at most once, and every other
\* constructed task is dropped without ever being scheduled or run.
C1_Dedup ==
    \A k \in Keys :
        /\ \A c \in Callers : HoldsTask(c) /\ thread[c].key = k =>
                /\ native_task_cache[k] # NoTask
                /\ thread[c].task = native_task_cache[k]
        /\ \A t \in CreatedFor(k) :
                /\ tasks[t].scheds <= 1
                /\ t # native_task_cache[k] /\ thread[t].pc # "alter" =>
                        /\ tasks[t].ty = "dropped"
                        /\ tasks[t].scheds = 0
                        /\ tasks[t].runs = 0
                        /\ tasks[t].state = "Dirty"
                /\ t = native_task_cache[k] => tasks[t].ty = "native"

\* Two calls of one key raced through the slow path and both returned: one
\* constructed task was dropped, the other was run.
C1_Witness ==
    \E k \in Keys :
        /\ \A c \in Callers : thread[c].pc = "returned" /\ thread[c].key = k
        /\ \E t \in CreatedFor(k) : tasks[t].ty = "dropped"
        /\ tasks[native_task_cache[k]].state = "Done"
\* The callers of key k that did not construct a task: their optimistic read
\* found the key.
FastPath(c) == HoldsTask(c) /\ tasks[c].ty = "free"

\* C2: two calls with equal keys, issued at any two points of a run, hold the
\* same task and read the same output from it, and while that task was never
\* invalidated its body has run at most once, exactly once when it is Done.
C2_Memoization ==
    /\ \A c1, c2 \in Callers :
            HoldsTask(c1) /\ HoldsTask(c2) /\ thread[c1].key = thread[c2].key =>
                /\ thread[c1].task = thread[c2].task
                /\ tasks[thread[c1].task].output = tasks[thread[c2].task].output
    /\ \A k \in Keys : native_task_cache[k] # NoTask =>
            LET t == native_task_cache[k]
            IN  /\ tasks[t].key = k
                /\ tasks[t].invals = 0 /\ tasks[t].stale = 0 =>
                        /\ tasks[t].runs <= 1
                        /\ tasks[t].state = "Done" => tasks[t].runs = 1

\* A second call of a key arrives after the first call's task is Done and
\* takes the optimistic read: same task, run once.
C2_Witness ==
    \E c1, c2 \in Callers :
        /\ c1 # c2
        /\ thread[c1].pc = "returned"
        /\ FastPath(c2) /\ thread[c2].pc = "returned"
        /\ thread[c1].key = thread[c2].key
        /\ thread[c1].task = thread[c2].task
        /\ tasks[thread[c1].task].state = "Done"
        /\ tasks[thread[c1].task].runs = 1
        /\ tasks[thread[c1].task].output # NoVal
NativeTasks == {t \in Tasks : tasks[t].ty = "native"}

\* How often task A stands in a sequence of tasks to notify.
Occ(seq, A) == Cardinality({i \in DOMAIN seq : seq[i] = A})

RECURSIVE PendingIn(_, _)
PendingIn(J, A) ==
    IF J = {} THEN 0
    ELSE LET j == CHOOSE x \in J : TRUE
         IN  CopiesIn(j, jobs) * (Occ(j.acc, A) + Occ(j.taken, A)) + PendingIn(J \ {j}, A)

\* The notifications of A that are recorded and not yet delivered.
Pending(A) == PendingIn(JobSet, A)

\* The invalidations that reached A: as a Done task, or mid-flight.
Invalidations(A) == tasks[A].invals + tasks[A].stale

\* C3 as stated, its last clause: any number of differing writes to the one
\* slot s1 that A read, none of them arriving while A is in progress, cause
\* exactly one re-execution of A.
C3_Original ==
    \A A \in NativeTasks :
        Cardinality(Reads(tasks[A].key)) = 1 /\ tasks[A].stale = 0 => tasks[A].runs <= 2

C3_Dependents ==
    \A A \in NativeTasks :
        /\ tasks[A].runs <= 1 + Invalidations(A)
        /\ jobs = EmptyBag /\ Invalidations(A) > 0 =>
                tasks[A].runs >= 2 /\ tasks[A].state = "Done"
        /\ \A s \in Slots : A \in dependents[s] =>
                /\ s \in Reads(tasks[A].key)
                /\ tasks[A].observed[s] # NoVal

C3_Step ==
    \A A \in NativeTasks :
        /\ \A s \in Slots : content'[s] # content[s] =>
                Pending(A)' = Pending(A) + (IF A \in dependents[s] THEN 1 ELSE 0)
        /\ content' = content => Pending(A)' <= Pending(A)
        /\ Invalidations(A)' # Invalidations(A) =>
                /\ Invalidations(A)' = Invalidations(A) + 1
                /\ Pending(A)' = Pending(A) - 1
        /\ tasks[A].state = "Done" /\ tasks'[A].state # "Done" =>
                /\ tasks'[A].state = "Scheduled"
                /\ tasks'[A].invals = tasks[A].invals + 1

\* C3 as amended: a differing write to a slot records one notification for
\* each task whose last execution read the slot and for no other task; an
\* equal write changes nothing and records none; a Done task is made dirty
\* and re-scheduled only by the delivery of one recorded notification; and
\* the re-executions of a task never outnumber the invalidations that reached
\* it, which never outnumber the differing writes to the slots it read; once
\* every job has ended an invalidated task has been re-executed.
C3_Minimal == []C3_Dependents /\ [][C3_Step]_vars

\* A read slot 2 and not slot 1; slot 1 and slot 2 were both written with a
\* differing value; A was re-executed once, for the write of slot 2 alone.
C3_Witness ==
    \E A \in NativeTasks :
        /\ Reads(tasks[A].key) = {NumSlots}
        /\ \A s \in Slots : content[s] # 0
        /\ tasks[A].state = "Done"
        /\ tasks[A].runs = 2
        /\ tasks[A].invals = 1
        /\ tasks[A].stale = 0
        /\ tasks[A].observed[NumSlots] = content[NumSlots]
        /\ jobs = EmptyBag
        /\ opsLeft = 0
\* The executions a task can have in a run: the first and one for every
\* notification the slot changes beside its call can record for it.
MaxRuns == 1 + (MaxOps - 1) * NumSlots

\* A read slot s in its present or last execution and s holds another value
\* by now.
StaleRead(A) ==
    \E s \in Slots : A \in dependents[s] /\ tasks[A].observed[s] # content[s]

\* C4 as stated, its second clause: a task in progress that has read a slot
\* which was then written with a differing value does not become Done from
\* that execution.
C4_Original ==
    [][\A A \in NativeTasks :
            tasks[A].state = "InProgress" /\ StaleRead(A) => tasks'[A].state # "Done"]_vars

C4_Recorded ==
    \A A \in NativeTasks :
        /\ tasks[A].runs <= MaxRuns
        /\ tasks[A].state \in {"InProgress", "Done"} /\ StaleRead(A) =>
                tasks[A].invalidated \/ Pending(A) > 0

C4_Step ==
    \A A \in NativeTasks :
        tasks[A].state = "InProgress" /\ tasks[A].invalidated =>
            \/ tasks'[A].state = "InProgress" /\ tasks'[A].invalidated
            \/ /\ tasks'[A].state = "Scheduled"
               /\ tasks'[A].output = NoVal
               /\ \E j \in BagToSet(jobs') : j.task = A /\ j.pc = "start"

C4_Rerun ==
    \A A \in Callers : \A n \in 1 .. MaxRuns :
        (tasks[A].state = "InProgress" /\ StaleRead(A) /\ tasks[A].runs = n)
            ~> (tasks[A].state = "Done" /\ tasks[A].runs > n)

\* C4 as amended: the differing write of a slot that A has read in its running
\* execution is recorded as a notification, which the writing execution
\* delivers when its own body has resolved.  Delivered while A is in progress,
\* it makes A's result be discarded when the body finishes: A does not become
\* Done from that execution and is scheduled again.  Delivered later, it finds
\* A Done from that execution and makes it dirty and scheduled again.  Either
\* way A is eventually run again to completion.
C4_Discard == []C4_Recorded /\ [][C4_Step]_vars /\ C4_Rerun

\* A was invalidated in flight once, its result was discarded, and its second
\* execution completed with the current contents.
C4_Witness ==
    \E A \in NativeTasks :
        /\ tasks[A].stale = 1
        /\ tasks[A].invals = 0
        /\ tasks[A].runs = 2
        /\ tasks[A].state = "Done"
        /\ ~StaleRead(A)
        /\ tasks[A].output = Compute(tasks[A].key, content)
        /\ \E s \in Reads(tasks[A].key) : content[s] # 0
\* C5: once the external slot changes have stopped and wait_done() has
\* returned, no Done task holds a result computed from a stale slot value.
C5_Fixpoint ==
    \A w \in Waiters : waiter[w].pc = "returned" /\ waiter[w].settled =>
        \A A \in NativeTasks : tasks[A].state = "Done" => ~StaleRead(A)
\* C6: under fair scheduling every call of wait_done() that listens in a run
\* with at least one external operation eventually returns, whenever it
\* started to listen.
C6_WaitDoneReturns ==
    \A w \in Waiters :
        (waiter[w].pc = "listening" /\ opsLeft < MaxOps) ~> (waiter[w].pc = "returned")
RECURSIVE CountJobs(_, _, _)
CountJobs(J, bag, P) ==
    IF J = {} THEN 0
    ELSE LET j == CHOOSE x \in J : TRUE
         IN  (IF j.pc \in P THEN CopiesIn(j, bag) ELSE 0) + CountJobs(J \ {j}, bag, P)

\* The jobs that are between their fetch_sub and the end of event.notify.
Publishing == CountJobs(JobSet, jobs, {"load", "store", "publish", "event"})

\* The jobs that have published and are about to notify the event.
Notifying == CountJobs(JobSet, jobs, {"event"})

C7_Published ==
    /\ Notifying > 0 => last_update # <<>>
    /\ Publishing > 0 => start # 0
    /\ last_update # <<>> => last_update[1] \in 1 .. start

C7_Step ==
    /\ currently_scheduled_tasks = 0 /\ currently_scheduled_tasks' > 0 =>
            \E th \in Threads : /\ thread[th].pc = "sched_inc"
                                /\ thread'[th].pc = "sched_start"
    /\ currently_scheduled_tasks > 0 /\ currently_scheduled_tasks' > currently_scheduled_tasks =>
            /\ start' = start
            /\ \A th \in Threads : thread'[th].pc = "sched_start" =>
                                        thread[th].pc = "sched_start"
    /\ start' # start =>
            \E th \in Threads : /\ thread[th].pc = "sched_start"
                                /\ thread'[th].pc = "sched_count"
    /\ currently_scheduled_tasks = 1 /\ currently_scheduled_tasks' = 0 =>
            Publishing' = Publishing + 1
    /\ ~(currently_scheduled_tasks = 1 /\ currently_scheduled_tasks' = 0) =>
            Publishing' <= Publishing
    /\ Notifying' > Notifying =>
            /\ last_update' # <<>>
            /\ last_update'[1] = start
    /\ woken' \ woken # {} =>
            /\ Notifying' = Notifying - 1
            /\ woken' = woken \cup listeners
            /\ listeners' = {}

\* C7: the schedule() that moves the counter from 0 to a positive count, and
\* no other, goes on to start the timer; the job end that moves the counter to
\* 0, and no other, goes on to publish an (elapsed, total) pair into
\* last_update and then to notify the event, which wakes every registered
\* listener; the event is notified by nothing else.
C7_Quiescence == []C7_Published /\ [][C7_Step]_vars

\* A listener was woken by the notify of a job that moved the counter to 0
\* and got the published pair.
C7_Witness ==
    \E w \in Waiters :
        /\ waiter[w].pc = "returned"
        /\ waiter[w].got # <<>>
        /\ waiter[w].got = last_update
        /\ currently_scheduled_tasks = 0
        /\ start > 0
        /\ jobs = EmptyBag
\* The spawned jobs that are to execute, or execute, task A.
JobsOf(A) == CountJobs({j \in JobSet : j.task = A}, jobs,
                       {"start", "body", "take", "flush"})

C8_OneJob ==
    \A A \in NativeTasks :
        /\ JobsOf(A) <= 1
        /\ tasks[A].state = "Dirty" => JobsOf(A) = 0
        /\ tasks[A].scheds <= 1

C8_Step ==
    \A A \in NativeTasks :
        /\ Pending(A)' > Pending(A) =>
                /\ Pending(A)' = Pending(A) + 1
                /\ Cardinality({s \in Slots : content'[s] # content[s]}) = 1
                /\ \A s \in Slots : content'[s] # content[s] => A \in dependents[s]
        /\ Pending(A)' < Pending(A) =>
                /\ Pending(A)' = Pending(A) - 1
                /\ scheduled_tasks' <= scheduled_tasks + 1
                /\ JobsOf(A)' <= JobsOf(A) + 1
                /\ tasks[A].state \in {"Dirty", "Scheduled"} =>
                        /\ tasks'[A] = tasks[A]
                        /\ JobsOf(A)' = JobsOf(A)
                        /\ UNCHANGED counters
        /\ tasks[A].state \in {"Dirty", "Scheduled"} /\ JobsOf(A)' > JobsOf(A) =>
                /\ tasks[A].state = "Scheduled"
                /\ tasks[A].scheds = 0
                /\ \E th \in Callers : /\ thread[th].pc = "sched_count"
                                       /\ thread[th].task = A

\* C8: one differing slot write records one notification for each dependent
\* task, and the delivery of one notification re-schedules the task at most
\* once; a notification that finds the task Dirty or Scheduled changes
\* nothing and schedules nothing, also when the task stands several times in
\* the accumulator of one execution; a task never has two executions queued.
C8_Coalescing == []C8_OneJob /\ [][C8_Step]_vars

\* One execution changed both slots A had read and recorded A twice; the
\* first notification re-scheduled A, the second is about to find it
\* Scheduled.
C8_Witness ==
    \E A \in NativeTasks : \E j \in JobSet :
        /\ j.pc = "flush"
        /\ j.taken = <<A>>
        /\ tasks[j.task].ty = "once"
        /\ Cardinality({t \in OnceTasks : tasks[t].ty = "once"}) = 1
        /\ \A s \in Slots : content[s] # 0
        /\ tasks[A].state = "Scheduled"
        /\ tasks[A].invals = 1
        /\ tasks[A].runs = 1
C9_Drained ==
    \A j \in JobSet :
        /\ j.pc \in {"start", "body", "take"} => j.taken = <<>>
        /\ j.pc = "start" => j.acc = <<>>
        /\ j.pc = "flush" =>
                /\ j.acc = <<>>
                /\ tasks[j.task].state = "InProgress"
                /\ tasks[j.task].output # NoVal
        /\ j.pc \in {"dec", "load", "store", "publish", "event"} =>
                j.acc = <<>> /\ j.taken = <<>>

C9_Step ==
    /\ \A A \in Tasks : Pending(A)' < Pending(A) =>
            \E j \in JobSet :
                /\ j.pc = "flush"
                /\ j.taken # <<>>
                /\ Head(j.taken) = A
                /\ tasks[j.task].state = "InProgress"
                /\ tasks[j.task].output # NoVal
                /\ jobs' = Step(j, [j EXCEPT !.taken = Tail(@)]) \/
                   jobs' = Spawn(Step(j, [j EXCEPT !.taken = Tail(@)]), A)
    /\ \A t \in Tasks : tasks[t].state = "InProgress" /\ tasks'[t].state # "InProgress" =>
            \E j \in JobSet :
                /\ j.task = t
                /\ j.pc = "flush"
                /\ j.taken = <<>>
                /\ j.acc = <<>>
                /\ \A A \in Tasks : Pending(A)' = Pending(A)

\* C9: the dependents an execution records are notified one by one only
\* after its body has resolved and its result was recorded, while its task is
\* still in progress; the task leaves InProgress (execution_completed) only
\* when everything recorded has been delivered, and a job past that point
\* holds no recorded dependent.
C9_FlushOrder == []C9_Drained /\ [][C9_Step]_vars

\* An execution that changed a slot has delivered its notification and is
\* about to complete.
C9_Witness ==
    \E j \in JobSet : \E A \in NativeTasks :
        /\ j.pc = "flush"
        /\ j.taken = <<>>
        /\ tasks[j.task].ty = "once"
        /\ tasks[j.task].state = "InProgress"
        /\ Invalidations(A) = 1
        /\ Pending(A) = 0
        /\ StaleRead(A) \/ tasks[A].state = "Scheduled"
C10_Listening ==
    /\ BgListener \in listeners \cup woken => bg \in {"check2", "await"}
    /\ bg = "await" => BgListener \in listeners \cup woken

C10_Step ==
    /\ bg # "run" /\ bg' = "run" =>
            \/ bg \in {"check1", "check2"} /\ currently_scheduled_tasks = 0
            \/ bg = "await" /\ BgListener \in woken
    /\ BgListener \in woken' \ woken =>
            /\ BgListener \in listeners
            /\ Notifying' = Notifying - 1
    /\ bg \in {"check1", "check2"} /\ currently_scheduled_tasks # 0 => bg' # "run"

C10_Runs == (bg # "none") ~> (bg = "run")

\* C10: the background job starts its future only after it has read the
\* counter as 0, at the first check or at the check after listening, or after
\* a notification that was issued while it was listening has woken it; and
\* under fair scheduling it always comes to run.
C10_Deferral == []C10_Listening /\ [][C10_Step]_vars /\ C10_Runs

\* The background job found tasks scheduled at both checks, awaited and was
\* woken by the notification of the zero transition.
C10_Witness ==
    /\ bg = "await"
    /\ BgListener \in woken
    /\ currently_scheduled_tasks = 0
    /\ last_update # <<>>
\* The jobs whose body is inside a cached call.
InCall(job) == job.pc \in {"b_create", "b_alter", "b_connect"}

\* The cache the routing rule demands for a call.
Demanded(fn, k) ==
    IF fn = "trait_call" THEN "trait"
    ELSE IF \A n \in DOMAIN Inputs(k) : Inputs(k)[n] \notin {"unresolved", "nothing"}
         THEN "native"
         ELSE "resolve"

\* C11 as stated: dynamic_call uses the native cache when all inputs are
\* resolved and the resolve cache otherwise; trait_call uses the trait cache.
C11_Original ==
    \A job \in JobSet : InCall(job) =>
        job.map = IF job.fn = "trait_call" THEN "trait"
                  ELSE IF \A n \in DOMAIN Inputs(job.key) : is_resolved(Inputs(job.key)[n])
                       THEN "native"
                       ELSE "resolve"

C11_Routed ==
    /\ \A job \in JobSet : InCall(job) => job.map = Demanded(job.fn, job.key)
    /\ \A k \in CallKeys :
            /\ native_task_cache[k] # NoTask =>
                    /\ tasks[native_task_cache[k]].ty = "native"
                    /\ tasks[native_task_cache[k]].key = k
                    /\ Demanded("dynamic_call", k) = "native"
            /\ resolve_task_cache[k] # NoTask =>
                    /\ tasks[resolve_task_cache[k]].ty = "resolve"
                    /\ tasks[resolve_task_cache[k]].key = k
                    /\ Demanded("dynamic_call", k) = "resolve"
            /\ trait_task_cache[k] # NoTask =>
                    /\ tasks[trait_task_cache[k]].ty = "trait"
                    /\ tasks[trait_task_cache[k]].key = k

C11_Step ==
    \A m \in Maps : \A k \in CallKeys :
        Cache(m)'[k] # Cache(m)[k] =>
            /\ Cache(m)[k] = NoTask
            /\ \/ \E job \in JobSet : /\ job.pc = "b_alter"
                                      /\ job.key = k
                                      /\ m = Demanded(job.fn, k)
                                      /\ Cache(m)'[k] = job.new_task
               \/ \E c \in Callers : /\ thread[c].pc = "alter"
                                     /\ thread[c].key = k
                                     /\ m = Demanded("dynamic_call", k)
                                     /\ Cache(m)'[k] = thread[c].new_task
            /\ \A m2 \in Maps \ {m} : Cache(m2)' = Cache(m2)

\* C11 as amended: dynamic_call(func, inputs) looks up or inserts in the native
\* cache when every input is resolved and none is Nothing, and in the resolve
\* cache otherwise, also when the only obstacle is a Nothing input;
\* trait_call always uses the trait cache; a call reads and changes no cache
\* but the one selected by this rule, and every cache holds under a key only a
\* task made for that key by the entry point of that cache.
C11_Routing == []C11_Routed /\ [][C11_Step]_vars

\* The body of the root task called dynamic_call with a Nothing input and
\* trait_call; a thread called with resolved inputs: all three caches are in
\* use, the resolve cache for the key whose inputs are resolved but Nothing.
C11_Witness ==
    /\ resolve_task_cache[NumKeys + 2] # NoTask
    /\ \E k \in CallKeys : trait_task_cache[k] # NoTask
    /\ \E k \in Keys : native_task_cache[k] # NoTask
    /\ \E job \in JobSet : job.pc = "body" /\ Cardinality(job.handles) = 2
\* The job takes a step.
Moves(job) == CopiesIn(job, jobs') < CopiesIn(job, jobs)

C12_Linked ==
    /\ \A job \in JobSet : \A t \in job.handles : job.task \in tasks[t].parents
    /\ \A t \in Tasks : \A p \in tasks[t].parents :
            tasks[p].ty = "root" /\ tasks[p].runs >= 1
    /\ \A c \in Callers : thread[c].pc = "returned" /\ tasks[RootTask].ty = "free" =>
            tasks[thread[c].task].parents = {}

C12_Step ==
    /\ \A job \in JobSet : job.pc = "b_connect" /\ Moves(job) =>
            /\ job.task \in tasks'[job.res].parents
            /\ tasks'[job.res].parents = tasks[job.res].parents \cup {job.task}
            /\ job.task \in tasks[job.res].parents =>
                    tasks'[job.res].parents = tasks[job.res].parents
            /\ job.res = CacheGet(Cache(job.map), job.key)
    /\ \A t \in Tasks : tasks'[t].parents # tasks[t].parents =>
            \E job \in JobSet : /\ job.pc = "b_connect"
                                /\ job.res = t
                                /\ Moves(job)
    /\ \A c \in Callers : thread[c].pc = "connect" /\ thread'[c].pc # "connect" =>
            \A t \in Tasks : tasks'[t].parents = tasks[t].parents

\* C12: every cached call made by a job whose current task is set links that
\* task as a parent of the task it hands back, whether the task was found by
\* the optimistic read or found or inserted by the alter; the parents of a
\* task change in no other way, so a call made by a thread without a current
\* task adds none; linking a parent that is already linked leaves the set of
\* parents unchanged.
C12_ParentLinking == []C12_Linked /\ [][C12_Step]_vars

\* The body of the root task called one key twice and got, both times, the
\* task a thread without a current task had made for it: the task has the
\* root task as its one parent.
C12_Witness ==
    \E job \in JobSet : \E c \in Callers :
        /\ job.pc = "body"
        /\ job.calls = 2
        /\ job.handles = {thread[c].task}
        /\ thread[c].pc = "returned"
        /\ thread[c].task = c
        /\ tasks[c].parents = {job.task}
        /\ tasks[RootTask + 1].ty = "dropped"
C13_Failed ==
    \A t \in Tasks :
        /\ tasks[t].output = ErrVal =>
                /\ tasks[t].fails >= 1
                /\ tasks[t].state \in {"InProgress", "Done"}
                /\ tasks[t].state = "InProgress" =>
                        \E j \in JobSet : j.task = t /\ j.pc \in {"take", "flush"}
        /\ tasks[t].state = "Done" /\ tasks[t].fails = tasks[t].runs =>
                tasks[t].output = ErrVal

C13_Step ==
    \A t \in Tasks :
        /\ tasks[t].output = ErrVal /\ tasks'[t].output # ErrVal =>
                /\ tasks'[t].output = NoVal
                /\ tasks'[t].state = "Scheduled"
                /\ \/ tasks[t].state = "Done" /\ tasks'[t].invals = tasks[t].invals + 1
                   \/ tasks[t].state = "InProgress" /\ tasks[t].invalidated
        /\ tasks'[t].fails > tasks[t].fails =>
                /\ tasks'[t].output = ErrVal
                /\ tasks'[t].state = "InProgress"
                /\ Pending(t)' = Pending(t)
                /\ \A A \in NativeTasks : Pending(A)' = Pending(A)
                /\ \E j \in JobSet :
                        /\ j.task = t
                        /\ j.pc = "body"
                        /\ jobs' = Step(j, [j EXCEPT !.pc = "take", !.todo = {}])
        /\ tasks[t].state = "InProgress" /\ tasks'[t].state = "Done" =>
                /\ tasks'[t].output = tasks[t].output
                /\ \E j \in JobSet : j.task = t /\ j.pc = "flush" /\ j.taken = <<>>
                                     /\ j.acc = <<>>

\* C13: when a task body returns an error, the error is recorded as the
\* task's output and stays there, seen by every read, until the task is
\* invalidated, which clears the output and schedules the task again; the
\* failed execution keeps the notifications it recorded, delivers them and
\* completes as a successful one does: the task becomes Done holding the
\* error.
C13_StickyFailure == []C13_Failed /\ [][C13_Step]_vars

\* A failed and is Done again after a successful second execution; it was
\* invalidated by a once task that changed a slot and then failed, and that
\* once task is Done holding its error.
C13_Witness ==
    \E A \in NativeTasks : \E T \in OnceTasks :
        /\ tasks[T].ty = "once"
        /\ tasks[T].state = "Done"
        /\ tasks[T].output = ErrVal
        /\ tasks[A].fails = 1
        /\ tasks[A].invals = 1
        /\ tasks[A].runs = 2
        /\ tasks[A].state = "Done"
        /\ tasks[A].output = Compute(tasks[A].key, content)
\* The tasks made by spawn_root_task and spawn_once_task.
Anonymous == {t \in Tasks : tasks[t].ty \in {"root", "once"}}

C14_Anonymous ==
    /\ CachedTasksIter \cap Anonymous = {}
    /\ \A c \in Callers : HoldsTask(c) => thread[c].task \notin Anonymous
    /\ \A t \in Anonymous :
            /\ tasks[t].state # "Dirty"
            /\ tasks[t].scheds <= 1
            /\ tasks[t].scheds = 0 =>
                    /\ thread[Writer].task = t
                    /\ thread[Writer].pc \in {"sched_inc", "sched_start", "sched_count"}
            /\ tasks[t].ty = "once" =>
                    /\ tasks[t].runs <= 1
                    /\ tasks[t].state = "Done" <=> tasks[t].runs = 1 /\ JobsOf(t) = 0
                    /\ tasks[t].scheds = 1 /\ jobs = EmptyBag => tasks[t].runs = 1

C14_Step ==
    \A t \in Tasks :
        tasks[t].ty \notin {"root", "once"} /\ tasks'[t].ty \in {"root", "once"} =>
            /\ tasks[t] = FreeTask
            /\ thread[Writer].pc = "idle"
            /\ thread'[Writer].pc = "sched_inc"
            /\ thread'[Writer].task = t
            /\ tasks'[t].state = "Scheduled"
            /\ \A u \in Tasks \ {t} : tasks'[u] = tasks[u]
            /\ UNCHANGED caches

C15_Context ==
    /\ \A job \in JobSet :
            /\ job.pc # "aborted"
            /\ job.pc \in {"body", "take", "flush"} \/ InCall(job) => Current(job) = ThisManager
            /\ job.pc = "start" => Current(job) = NoManager
    /\ \A c \in Callers : thread[c].pc = "panicked" =>
            /\ thread[c].task = NoTask
            /\ thread[c].new_task = NoTask
            /\ tasks[c] = FreeTask

C15_Step ==
    \A c \in Callers :
        thread[c].pc # "panicked" /\ thread'[c].pc = "panicked" =>
            /\ thread[c].pc = "idle"
            /\ UNCHANGED <<caches, counters, tasks, jobs, last_update, event>>

\* C15: the free functions dynamic_call and trait_call, called on a thread
\* that runs no job of the manager, panic on the missing TURBO_TASKS before
\* they reach cached_call: no task is made, no cache is changed, nothing is
\* scheduled.  Called by a task body they find the manager whose job runs the
\* body, which installed itself before the body started, and never panic.
C15_MissingContext == []C15_Context /\ [][C15_Step]_vars

\* A thread outside every job panicked on its call, while the body of the
\* root task made the same kind of call and holds the task it got.
C15_Witness ==
    /\ \E c \in Callers : thread[c].pc = "panicked"
    /\ \E job \in JobSet :
            /\ job.pc = "body"
            /\ job.handles # {}
            /\ job.handles \subseteq CachedTasksIter
    /\ Cardinality(CachedTasksIter) = 1
\* C16: a cached task that no parent and no handle keeps live is, by the end
\* of the background work of schedule_deactivate_tasks and
\* schedule_remove_tasks, in no cache any more; a task that is a root or has a
\* parent is never removed.
C16_ParentLiveness ==
    \A t \in Tasks :
        /\ tasks[t].life = "removed" /\ bg = "none" => t \notin CachedTasksIter
        /\ tasks[t].life # "active" => tasks[t].ty # "root" /\ tasks[t].parents = {}
\* Two selections are the same call: the n-th call of slot() for one value
\* type, or the call of keyed_slot() for one key.
SameCall(p, q) == p.kind = q.kind /\ p.of = q.of /\ p.n = q.n

C17_Selected ==
    \A t \in NativeTasks :
        LET picks == tasks[t].picks
            last == tasks[t].last
        IN  /\ \A i \in DOMAIN picks : \A j \in DOMAIN last :
                    SameCall(picks[i], last[j]) => picks[i].slot = last[j].slot
            /\ \A i \in DOMAIN picks :
                    /\ picks[i].slot \in 1 .. Len(tasks[t].created)
                    /\ picks[i].kind = "key" => tasks[t].by_key[picks[i].of] = picks[i].slot
                    /\ picks[i].kind = "type" =>
                            /\ picks[i].n = Cardinality({j \in 1 .. i :
                                    picks[j].kind = "type" /\ picks[j].of = picks[i].of})
                            /\ tasks[t].by_type[picks[i].of][picks[i].n] = picks[i].slot
            /\ \A i, j \in DOMAIN picks : i # j =>
                    /\ ~SameCall(picks[i], picks[j])
                    /\ picks[i].slot # picks[j].slot

C17_Step ==
    \A t \in NativeTasks :
        /\ \A key \in SlotKeys : tasks[t].by_key[key] # 0 =>
                tasks'[t].by_key[key] = tasks[t].by_key[key]
        /\ \A ty \in SlotTypes : \A n \in DOMAIN tasks[t].by_type[ty] :
                /\ n \in DOMAIN tasks'[t].by_type[ty]
                /\ tasks'[t].by_type[ty][n] = tasks[t].by_type[ty][n]
        /\ tasks'[t].created # tasks[t].created =>
                /\ tasks[t].state = "InProgress"
                /\ Len(tasks'[t].picks) = Len(tasks[t].picks) + 1
                /\ \E j \in JobSet : j.task = t /\ j.pc = "body" /\ Moves(j)
        /\ Len(tasks'[t].picks) = Len(tasks[t].picks) + 1 =>
                LET p == tasks'[t].picks[Len(tasks'[t].picks)]
                    old == tasks[t].created
                    new == tasks'[t].created
                IN  /\ new[p.slot].val = Placed(t)
                    /\ \A i \in DOMAIN old : i # p.slot => new[i] = old[i]
                    /\ p.slot \in DOMAIN old =>
                            /\ Len(new) = Len(old)
                            /\ new[p.slot].version =
                                    old[p.slot].version +
                                    (IF old[p.slot].val = Placed(t) THEN 0 ELSE 1)
                    /\ p.slot \notin DOMAIN old =>
                            /\ p.slot = Len(old) + 1
                            /\ Len(new) = Len(old) + 1

\* C17: within a task, the n-th call of slot() for a value type in one
\* execution selects the slot the n-th call for that type selected in the
\* execution before, and keyed_slot(key, ..) selects in every execution the
\* slot of its key; the selected slot is one of the slots of the executing
\* task, other calls of the execution select other slots, and the slot is
\* updated by compare-and-update: an equal content leaves it as it is, a
\* differing one replaces the content.
C17_SlotSelection == []C17_Selected /\ [][C17_Step]_vars

\* A task placed one slot by type and one by key in two executions; the
\* second execution selected the two slots of the first and replaced the
\* content of one of them.
C17_Witness ==
    \E t \in NativeTasks :
        /\ tasks[t].runs = 2
        /\ Len(tasks[t].picks) = 2
        /\ tasks[t].picks = tasks[t].last
        /\ \E i \in DOMAIN tasks[t].picks : tasks[t].picks[i].kind = "key"
        /\ \E i \in DOMAIN tasks[t].picks : tasks[t].picks[i].kind = "type"
        /\ Len(tasks[t].created) = 2
        /\ \E i \in DOMAIN tasks[t].created : tasks[t].created[i].version = 2

\* The spawned jobs that execute the body of task A or finish its execution.
Executing(A) == CountJobs({j \in JobSet : j.task = A}, jobs,
                          {"body", "take", "flush"})

\* The spawned jobs of task A that have not reached execution_started yet.
Waiting(A) == CountJobs({j \in JobSet : j.task = A}, jobs, {"start"})

C18_OneExecution ==
    \A A \in NativeTasks :
        /\ Executing(A) <= 1
        /\ Executing(A) = 1 <=> tasks[A].state = "InProgress"
        /\ tasks[A].runs <= tasks[A].scheds

C18_Step ==
    \A job \in JobSet :
        (job.pc = "start" /\ Moves(job)) =>
            IF tasks[job.task].state = "Scheduled"
            THEN /\ tasks'[job.task].state = "InProgress"
                 /\ tasks'[job.task].runs = tasks[job.task].runs + 1
            ELSE /\ tasks[job.task].state \in {"InProgress", "Done"}
                 /\ jobs' = Step(job, TailJob(job, "dec"))
                 /\ UNCHANGED <<tasks, slots, caches, counters, last_update, event>>

\* C18: of the jobs spawned for one task at most one wins the flip from
\* Scheduled to InProgress and executes the body; a job that finds the task
\* in another state finds it InProgress or Done and goes on to the decrement
\* of the counter alone: it changes no task, no slot, no output and sends no
\* notification, so that no task is executed by two jobs at once.
C18_StartGate == []C18_OneExecution /\ [][C18_Step]_vars

\* Task A was scheduled twice; one job executes its body while the other job
\* has lost the flip and dropped.
C18_Witness ==
    \E A \in NativeTasks :
        /\ tasks[A].scheds = 2
        /\ tasks[A].runs = 1
        /\ Executing(A) = 1
        /\ Waiting(A) = 0

C20_Step ==
    \A job \in JobSet :
        (job.pc = "publish" /\ Moves(job)) =>
            /\ job.due # <<>>
            /\ last_update' = job.due

\* C20: the pair a job publishes after it moved currently_scheduled_tasks to 0
\* is the instant at which the busy period it ended was opened together with
\* the number of schedule() calls made in that period, whatever other calls
\* of schedule() and other finishing jobs do in between.
C20_PublishedStatistics == [][C20_Step]_vars


\* The jobs spawned by schedule() that have not done their fetch_sub yet.
InFlight == CountJobs(JobSet, jobs, {"start", "body", "take", "flush", "dec"})

\* The calls of schedule() between their fetch_add and the spawn of their job.
Spawning == Cardinality({th \in Threads : thread[th].pc \in {"sched_start", "sched_count"}})

\* C21 as stated: the counter equals the number of jobs that schedule() has
\* created and that have not decremented yet, in every state.
C21_Original == currently_scheduled_tasks = InFlight

C21_Balanced ==
    /\ currently_scheduled_tasks = InFlight + Spawning
    /\ currently_scheduled_tasks >= 0
    /\ (InFlight = 0 /\ Spawning = 0) => currently_scheduled_tasks = 0

C21_Step ==
    /\ InFlight' < InFlight =>
            /\ InFlight' = InFlight - 1
            /\ currently_scheduled_tasks' = currently_scheduled_tasks - 1
            /\ \E job \in JobSet : job.pc = "dec" /\ Moves(job)
    /\ \A job \in JobSet :
            (job.pc = "dec" /\ Moves(job)) =>
                /\ currently_scheduled_tasks' = currently_scheduled_tasks - 1
                /\ InFlight' = InFlight - 1
    /\ \A job \in JobSet :
            (job.pc \in {"start", "body", "take", "flush"} /\ Moves(job)) =>
                InFlight' >= InFlight

\* C21: the counter equals the jobs that have not done their fetch_sub yet plus
\* the calls of schedule() that have incremented it and not spawned their job
\* yet; a job leaves that count by its one fetch_sub and in no other way, also
\* a job that dropped at execution_started and a job whose body returned an
\* error; the counter is never negative and is 0 when no job and no call of
\* schedule() is under way.
C21_CounterBalance == []C21_Balanced /\ [][C21_Step]_vars

\* All jobs have ended and the counter is back at 0 after a task was
\* scheduled twice and executed once (one job dropped) and a body failed.
C21_Witness ==
    /\ currently_scheduled_tasks = 0
    /\ jobs = EmptyBag
    /\ \E A \in NativeTasks : tasks[A].scheds = 2 /\ tasks[A].runs = 1
    /\ \E A \in NativeTasks : tasks[A].fails = 1

\* The listeners the event has notified: those not yet resumed and the
\* callers of wait_done() that were resumed.
Notified ==
    woken \cup {w \in Waiters : waiter[w].pc \in {"returned", "panicked"}}

C22_Published ==
    /\ (Notifying > 0 \/ Notified # {}) => (start # 0 /\ last_update # <<>>)
    /\ \A w \in Waiters :
            /\ waiter[w].pc # "panicked"
            /\ waiter[w].pc = "returned" => Len(waiter[w].got) = 2

C22_Step ==
    /\ start # 0 => start' # 0
    /\ last_update # <<>> => last_update' # <<>>
    /\ woken' \ woken # {} => (start # 0 /\ last_update # <<>>)
    /\ \A w \in Waiters :
            (waiter[w].pc = "listening" /\ waiter'[w].pc # "listening") =>
                /\ w \in woken
                /\ waiter'[w].pc = "returned"
                /\ waiter'[w].got = last_update

\* C22: when the event is notified, start and last_update hold a value and
\* keep holding one; a wait_done() resumes only after a notification and then
\* takes the published pair out of last_update: its unwrap never meets None.
C22_WaitDoneFindsResult == []C22_Published /\ [][C22_Step]_vars

\* A wait_done() was woken and returned a pair while a later schedule() has
\* raised the counter again.
C22_Witness ==
    \E w \in Waiters :
        /\ waiter[w].pc = "returned"
        /\ Len(waiter[w].got) = 2
        /\ currently_scheduled_tasks > 0

\* The keys a cache holds a task under.
KeysOf(m) == {k \in CallKeys : Cache(m)[k] # NoTask}

C23_Partitioned ==
    /\ \A k \in KeysOf("native") :
            \A n \in DOMAIN Inputs(k) :
                is_resolved(Inputs(k)[n]) /\ ~is_nothing(Inputs(k)[n])
    /\ \A k \in KeysOf("resolve") :
            \E n \in DOMAIN Inputs(k) :
                ~is_resolved(Inputs(k)[n]) \/ is_nothing(Inputs(k)[n])
    /\ KeysOf("native") \cap KeysOf("resolve") = {}

C23_Step ==
    \A m \in Maps :
        /\ KeysOf(m) \subseteq KeysOf(m)'
        /\ \A k \in KeysOf(m) : Cache(m)'[k] = Cache(m)[k]

\* C23: every key of the native cache has only inputs that are resolved and
\* not Nothing, every key of the resolve cache has an input that is unresolved
\* or Nothing, so that no key is in both; a cached call adds entries and
\* never replaces or removes the task stored under a key.
C23_CachePartition == []C23_Partitioned /\ [][C23_Step]_vars

\* The native cache holds a key of resolved inputs, the resolve cache the key
\* with an unresolved input and the key with a Nothing input.
C23_Witness ==
    /\ KeysOf("native") # {}
    /\ KeysOf("resolve") = {NumKeys + 1, NumKeys + 2}
====
